---- MODULE Spec2Model ----
(***************************************************************************)
(* WeComRobotMCP: the line-delimited JSON-RPC router (index.js, kept as    *)
(* src/unnamed/part_000), the tool dispatcher (src/src/tools.js) and the   *)
(* webhook client (src/src/wecom-client.js), as one state machine.         *)
(*                                                                         *)
(* One step of the machine is one run-to-completion segment of the Node    *)
(* event loop: the synchronous part of a 'line' event, the microtask       *)
(* continuation of a handler whose promise chain is already settled, the   *)
(* completion of a file read or of an HTTP exchange, a termination signal, *)
(* or the processing of an unhandled promise rejection.                    *)
(***************************************************************************)
EXTENDS Integers, Sequences, FiniteSets, TLC

VARIABLES
  isInitialized,        \* MCPServer.isInitialized
  status,               \* the process: "running", "exited" (process.exit(0)), "crashed"
  calls,                \* one record per 'line' event, in arrival order: the line, where its
                        \* handler is (k), the HTTP requests (http) and file reads (reads) it
                        \* started, and what its completed I/O returned (replies)
  out,                  \* process.stdout: [line |-> index of the line (0: none), msg |-> JSON text]
  stdin,                \* lines waiting in the input stream (used by ToolSpec)
  DEFAULT_WEBHOOK_KEY   \* tools.js: process.env.WECOM_WEBHOOK_KEY || null, read once

vars == <<isInitialized, status, calls, out, stdin, DEFAULT_WEBHOOK_KEY>>

----------------------------------------------------------------------------
(* JavaScript values.  A string is carried by its text (s) when the text   *)
(* is what the code looks at, by its code points (cp: runs of n code       *)
(* points of w UTF-8 bytes each) when its length is, and by its            *)
(* characters (ch) when it is a path or URL that gets parsed.  The text    *)
(* JSON.stringify(v, null, 2) returns is carried by the value it denotes   *)
(* (json).                                                                 *)

Undefined == [t |-> "undefined"]
Null == [t |-> "null"]
Str(s) == [t |-> "string", s |-> s]
Text(cp) == [t |-> "string", cp |-> cp]
Chars(ch) == [t |-> "string", ch |-> ch]
Json(v) == [t |-> "string", json |-> v]
Num(n) == [t |-> "number", n |-> n]
Bool(b) == [t |-> "boolean", b |-> b]
Arr(a) == [t |-> "array", a |-> a]
Obj(o) == [t |-> "object", o |-> o]
EmptyObj == Obj(<<>>)

RECURSIVE SumRuns(_)
SumRuns(cp) == IF cp = <<>> THEN 0 ELSE Head(cp).n + SumRuns(Tail(cp))

\* typeof v
TypeOf(v) == CASE v.t = "null" -> "object"
               [] v.t = "array" -> "object"
               [] OTHER -> v.t

\* String.prototype.length > 0
NonEmptyString(v) == IF "s" \in DOMAIN v THEN v.s # ""
                     ELSE IF "cp" \in DOMAIN v THEN SumRuns(v.cp) > 0
                     ELSE IF "ch" \in DOMAIN v THEN Len(v.ch) > 0
                     ELSE TRUE

\* ToBoolean(v): what `!v`, `v || w` and `if (v)` test
Truthy(v) == CASE v.t = "undefined" -> FALSE
               [] v.t = "null" -> FALSE
               [] v.t = "string" -> NonEmptyString(v)
               [] v.t = "number" -> v.n # 0
               [] v.t = "boolean" -> v.b
               [] OTHER -> TRUE

\* a || b
Or(a, b) == IF Truthy(a) THEN a ELSE b

\* v.f of a non-nullish v (reading a property of null or undefined throws)
Nullish(v) == v.t \in {"undefined", "null"}
Get(v, f) == IF v.t = "object" /\ f \in DOMAIN v.o THEN v.o[f] ELSE Undefined

\* JSON.stringify: members whose value is undefined are left out
RECURSIVE JSONstringify(_)
JSONstringify(v) ==
  IF v.t = "object"
    THEN Obj([f \in {g \in DOMAIN v.o : v.o[g].t # "undefined"} |-> JSONstringify(v.o[f])])
    ELSE v

\* String.prototype.length in place of the byte length
byteLength_chars(content) == SumRuns(content.cp)

\* The UTF-8 length of a string given by its runs of code points
RECURSIVE Utf8Bytes(_)
Utf8Bytes(cp) == IF cp = <<>> THEN 0 ELSE Head(cp).w * Head(cp).n + Utf8Bytes(Tail(cp))

\* Buffer.byteLength(content, 'utf8')
byteLength(content) == Utf8Bytes(content.cp)

----------------------------------------------------------------------------
(* index.js constants *)

PARSE_ERROR == -32700
INVALID_REQUEST == -32600
METHOD_NOT_FOUND == -32601
INVALID_PARAMS == -32602
INTERNAL_ERROR == -32603

MCP_VERSION == Str("2024-11-05")
SERVER_INFO == Obj([name |-> Str("wecom-robot-mcp"), version |-> Str("1.0.0"),
                    description |-> Str("WeCom robot MCP service")])

(* tools.js: the static tool list (name and required fields of each schema) *)
tools == <<
  Obj([name |-> Str("send_message"), description |-> Str("send markdown_v2 message"),
       inputSchema |-> Obj([required |-> Arr(<<Str("content")>>)])]),
  Obj([name |-> Str("send_file"), description |-> Str("upload and send a file"),
       inputSchema |-> Obj([required |-> Arr(<<Str("file_path")>>)])]),
  Obj([name |-> Str("send_image"), description |-> Str("send an image"),
       inputSchema |-> Obj([required |-> Arr(<<>>)])]) >>

(* wecom-client.js constants *)
MARKDOWN_MAX_BYTES == 4096
FILE_TYPE == [FILE |-> "file", VOICE |-> "voice"]
FILE_SIZE_LIMITS == [FILE |-> 20 * 1024 * 1024, VOICE |-> 2 * 1024 * 1024,
                     IMAGE |-> 2 * 1024 * 1024]
SUPPORTED_IMAGE_FORMATS == {<<"j", "p", "g">>, <<"j", "p", "e", "g">>, <<"p", "n", "g">>}

----------------------------------------------------------------------------
(* Control: what a segment of an async function ends in. *)

Threw(e) == [k |-> "throw", err |-> e]
Returned(v) == [k |-> "return", v |-> v]
Awaiting(io) == [k |-> "await", io |-> io]

\* A template literal with one substitution
Fmt(s, arg) == [t |-> "string", s |-> s, arg |-> arg]

\* new WeComError(code, message, data = {})
WeComError(code, message, data) ==
  [name |-> "WeComError", code |-> code, message |-> message, data |-> data]

\* An error of the runtime or of a library: no code the handlers look at, no data
TypeError(message) ==
  [name |-> "TypeError", code |-> Undefined, message |-> Str(message), data |-> Undefined]

----------------------------------------------------------------------------
(* path.basename, path.extname, String.prototype.toLowerCase, new URL *)

UpperCase == <<"A","B","C","D","E","F","G","H","I","J","K","L","M",
               "N","O","P","Q","R","S","T","U","V","W","X","Y","Z">>
LowerCase == <<"a","b","c","d","e","f","g","h","i","j","k","l","m",
               "n","o","p","q","r","s","t","u","v","w","x","y","z">>

toLowerCase(ch) ==
  [i \in 1..Len(ch) |->
     IF \E j \in 1..26 : UpperCase[j] = ch[i]
       THEN LowerCase[CHOOSE j \in 1..26 : UpperCase[j] = ch[i]]
       ELSE ch[i]]

\* The greatest index of c in ch, 0 when there is none
LastIndexOf(ch, c) ==
  IF \E i \in 1..Len(ch) : ch[i] = c
    THEN CHOOSE i \in 1..Len(ch) : ch[i] = c /\ \A j \in (i+1)..Len(ch) : ch[j] # c
    ELSE 0

basename(ch) == SubSeq(ch, LastIndexOf(ch, "/") + 1, Len(ch))

\* extname(p).slice(1): the text after the last dot of the base name, when
\* that dot is not its first character
extnameSlice1(ch) ==
  LET b == basename(ch)
      d == LastIndexOf(b, ".")
  IN IF d <= 1 THEN <<>> ELSE SubSeq(b, d + 1, Len(b))

\* new URL(u) does not throw: u starts with a scheme (letters, then ':')
\* that something follows
ParsesAsURL(ch) ==
  \E i \in 2..Len(ch) :
     /\ ch[i] = ":"
     /\ i < Len(ch)
     /\ \A j \in 1..(i-1) : \E l \in 1..26 : ch[j] \in {UpperCase[l], LowerCase[l]}

\* Buffer.toString('base64') and the hex MD5 digest, by their lengths
base64(size) == Text(<<[w |-> 1, n |-> 4 * ((size + 2) \div 3)]>>)
calculateMD5(size) == Text(<<[w |-> 1, n |-> 32]>>)

----------------------------------------------------------------------------
(* wecom-client.js: WeComClient.  Each async method is cut at its awaits:  *)
(* the first operator runs to the first I/O, the ..._on... operators run   *)
(* from the completion of that I/O.                                        *)

\* constructor(webhookKey)
WeComClient(webhookKey) ==
  IF ~Truthy(webhookKey) \/ TypeOf(webhookKey) # "string"
    THEN Threw(WeComError(Num(-1), Str("webhookKey must be a string"), EmptyObj))
    ELSE Returned([webhookKey |-> webhookKey])

\* sendMessage(msgType, content), to this.client.post('/send', ...)
sendMessage(client, msgType, content) ==
  Awaiting([op |-> "send", method |-> "POST", url |-> "/send",
            key |-> client.webhookKey,
            body |-> Obj(("msgtype" :> Str(msgType)) @@ (msgType :> content))])

\* sendMessage from the reply of the POST.  reply.k: "response" (an HTTP
\* response of some status) or "error" (no response: network, timeout).
sendMessage_onReply(reply) ==
  IF reply.k = "error"
    THEN Threw(WeComError(Num(-1), Fmt("network request failed: ", reply.message),
                          Obj([originalError |-> reply.message])))
  ELSE IF reply.status < 200 \/ reply.status > 299
    THEN Threw(WeComError(Num(reply.status), Fmt("API response error: ", Num(reply.status)),
                          Obj([status |-> Num(reply.status), data |-> reply.data])))
  ELSE IF Nullish(reply.data)
    THEN Threw(WeComError(Num(-1),
                          Fmt("network request failed: ", Str("Cannot read properties of null")),
                          Obj([originalError |-> Str("Cannot read properties of null")])))
  ELSE IF Get(reply.data, "errcode") # Num(0)
    THEN Threw(WeComError(Get(reply.data, "errcode"),
                          Or(Get(reply.data, "errmsg"), Str("send message failed")),
                          reply.data))
  ELSE Returned(Obj([success |-> Bool(TRUE), message |-> Str("message sent"),
                     data |-> reply.data]))

\* sendMarkdownV2(content)
sendMarkdownV2(client, content) ==
  IF ~Truthy(content) \/ TypeOf(content) # "string"
    THEN Threw(WeComError(Num(-1), Str("content must be a non-empty string"), EmptyObj))
  ELSE IF byteLength(content) > MARKDOWN_MAX_BYTES
    THEN Threw(WeComError(Num(-1), Fmt("content too long: ", Num(byteLength(content))), EmptyObj))
  ELSE sendMessage(client, "markdown_v2", Obj([content |-> content]))

\* uploadMedia(filePath, type), to this._readFile(filePath)
uploadMedia(client, filePath, type) ==
  IF ~Truthy(filePath) \/ TypeOf(filePath) # "string"
    THEN Threw(WeComError(Num(-1), Str("filePath must be a string"), EmptyObj))
  ELSE IF type \notin {FILE_TYPE[f] : f \in DOMAIN FILE_TYPE}
    THEN Threw(WeComError(Num(-1), Str("type must be file or voice"), EmptyObj))
  ELSE Awaiting([op |-> "read", path |-> filePath])

\* FILE_SIZE_LIMITS[type]: the member named by the type string, undefined
\* when the object has no member of that name
sizeLimitOf(type) ==
  IF type \in DOMAIN FILE_SIZE_LIMITS THEN Num(FILE_SIZE_LIMITS[type]) ELSE Undefined

\* fileSize > maxSize: a comparison with undefined (NaN) is false
GreaterThan(n, limit) == limit.t = "number" /\ n > limit.n

\* uploadMedia whose minimum-size check is `fileSize < 5`
uploadMedia_onRead_below5(client, filePath, type, read) ==
  IF read.k = "ENOENT"
    THEN Threw(WeComError(Num(-1), Fmt("file not found: ", filePath), EmptyObj))
  ELSE IF read.k # "data"
    THEN Threw(WeComError(Num(-1), Fmt("file upload failed: ", Str(read.k)),
                          Obj([originalError |-> Str(read.k)])))
  ELSE IF read.size < 5
    THEN Threw(WeComError(Num(-1), Str("file size must be greater than 5 bytes"), EmptyObj))
  ELSE IF GreaterThan(read.size, sizeLimitOf(type))
    THEN Threw(WeComError(Num(-1), Str("file size over the limit"), EmptyObj))
  ELSE Awaiting([op |-> "upload", method |-> "POST", url |-> "/upload_media",
                 key |-> client.webhookKey, type |-> type,
                 media |-> [filename |-> basename(filePath.ch), size |-> read.size]])

\* uploadMedia from the end of the file read.  read.k: "data" (size bytes),
\* "ENOENT", or another stream error.
uploadMedia_onRead(client, filePath, type, read) ==
  IF read.k = "ENOENT"
    THEN Threw(WeComError(Num(-1), Fmt("file not found: ", filePath), EmptyObj))
  ELSE IF read.k # "data"
    THEN Threw(WeComError(Num(-1), Fmt("file upload failed: ", Str(read.k)),
                          Obj([originalError |-> Str(read.k)])))
  ELSE IF read.size <= 5
    THEN Threw(WeComError(Num(-1), Str("file size must be greater than 5 bytes"), EmptyObj))
  ELSE IF GreaterThan(read.size, sizeLimitOf(type))
    THEN Threw(WeComError(Num(-1), Str("file size over the limit"), EmptyObj))
  ELSE Awaiting([op |-> "upload", method |-> "POST", url |-> "/upload_media",
                 key |-> client.webhookKey, type |-> type,
                 media |-> [filename |-> basename(filePath.ch), size |-> read.size]])

\* uploadMedia from the reply of the upload POST
uploadMedia_onReply(reply) ==
  IF reply.k = "error"
    THEN Threw(WeComError(Num(-1), Fmt("file upload failed: ", reply.message),
                          Obj([originalError |-> reply.message])))
  ELSE IF reply.status < 200 \/ reply.status > 299
    THEN Threw(WeComError(Num(-1), Fmt("file upload failed: ", Num(reply.status)),
                          Obj([originalError |-> Fmt("Request failed with status code ", Num(reply.status))])))
  ELSE IF Nullish(reply.data)
    THEN Threw(WeComError(Num(-1),
                          Fmt("file upload failed: ", Str("Cannot read properties of null")),
                          Obj([originalError |-> Str("Cannot read properties of null")])))
  ELSE IF Get(reply.data, "errcode") # Num(0)
    THEN Threw(WeComError(Get(reply.data, "errcode"),
                          Or(Get(reply.data, "errmsg"), Str("file upload failed")),
                          reply.data))
  ELSE Returned(Obj([success |-> Bool(TRUE), message |-> Str("file uploaded"),
                     media_id |-> Get(reply.data, "media_id"),
                     type |-> Get(reply.data, "type"),
                     created_at |-> Get(reply.data, "created_at")]))

\* sendFile(mediaId)
sendFile(client, mediaId) ==
  IF ~Truthy(mediaId) \/ TypeOf(mediaId) # "string"
    THEN Threw(WeComError(Num(-1), Str("mediaId must be a string"), EmptyObj))
    ELSE sendMessage(client, "file", Obj([media_id |-> mediaId]))

\* sendImage(imagePath), to this._readFile(imagePath)
sendImage(client, imagePath) ==
  IF ~Truthy(imagePath) \/ TypeOf(imagePath) # "string"
    THEN Threw(WeComError(Num(-1), Str("imagePath must be a string"), EmptyObj))
    ELSE Awaiting([op |-> "read", path |-> imagePath])

\* sendImage from the end of the file read
sendImage_onRead(client, imagePath, read) ==
  IF read.k = "ENOENT"
    THEN Threw(WeComError(Num(-1), Fmt("image file not found: ", imagePath), EmptyObj))
  ELSE IF read.k # "data"
    THEN Threw(WeComError(Num(-1), Fmt("send image failed: ", Str(read.k)),
                          Obj([originalError |-> Str(read.k)])))
  ELSE IF toLowerCase(extnameSlice1(imagePath.ch)) \notin SUPPORTED_IMAGE_FORMATS
    THEN Threw(WeComError(Num(-1), Fmt("unsupported image format: ",
                          Chars(toLowerCase(extnameSlice1(imagePath.ch)))), EmptyObj))
  ELSE IF read.size > FILE_SIZE_LIMITS.IMAGE
    THEN Threw(WeComError(Num(-1), Str("image size over the limit"), EmptyObj))
  ELSE sendMessage(client, "image",
                   Obj([base64 |-> base64(read.size), md5 |-> calculateMD5(read.size)]))

\* sendImageFromUrl(imageUrl), to axios.get(imageUrl, ...)
sendImageFromUrl(client, imageUrl) ==
  IF ~Truthy(imageUrl) \/ TypeOf(imageUrl) # "string"
    THEN Threw(WeComError(Num(-1), Str("imageUrl must be a string"), EmptyObj))
  ELSE IF ~ParsesAsURL(imageUrl.ch)
    THEN Threw(WeComError(Num(-1), Str("invalid URL"), EmptyObj))
  ELSE Awaiting([op |-> "fetch", method |-> "GET", url |-> imageUrl])

\* sendImageFromUrl from the reply of the GET: axios rejects every status
\* but 200 (validateStatus) and every body over maxContentLength
sendImageFromUrl_onReply(client, reply) ==
  IF reply.k = "error"
    THEN Threw(WeComError(Num(-1), Fmt("download or send failed: ", reply.message),
                          Obj([originalError |-> reply.message])))
  ELSE IF reply.status # 200
    THEN Threw(WeComError(Num(-1), Fmt("download or send failed: ", Num(reply.status)),
                          Obj([originalError |-> Fmt("Request failed with status code ", Num(reply.status))])))
  ELSE IF reply.size > FILE_SIZE_LIMITS.IMAGE
    THEN Threw(WeComError(Num(-1), Fmt("download or send failed: ", Str("maxContentLength size exceeded")),
                          Obj([originalError |-> Str("maxContentLength size exceeded")])))
  ELSE sendMessage(client, "image",
                   Obj([base64 |-> base64(reply.size), md5 |-> calculateMD5(reply.size)]))

----------------------------------------------------------------------------
(* tools.js: ToolHandler.  A handler that reaches an I/O is suspended with *)
(* the frame it resumes in.                                                *)

Suspended(io, frame) == [k |-> "await", io |-> io, frame |-> frame]

\* A client call made from a handler: when it reaches an I/O, the handler
\* is suspended in frame
Call(r, frame) == IF r.k = "await" THEN Suspended(r.io, frame) ELSE r

\* _formatSuccess(data)
_formatSuccess(data) ==
  Obj([content |-> Arr(<<Obj([type |-> Str("text"), text |-> Json(JSONstringify(data))])>>)])

\* _formatError(error)
_formatError(error) ==
  Obj([isError |-> Bool(TRUE),
       content |-> Arr(<<Obj([type |-> Str("text"),
                              text |-> Json(JSONstringify(Obj(
                                [error |-> Or(Str(error.name), Str("Error")), message |-> error.message,
                                 code |-> error.code,
                                 data |-> IF Truthy(error.data) THEN error.data
                                                                ELSE Undefined])))])>>)])

\* try { ... return this._formatSuccess(result) } catch (error) { return
\* this._formatError(error) } around a handler body that ended in r
Try(r) ==
  CASE r.k = "throw" -> Returned(_formatError(r.err))
    [] r.k = "return" -> Returned(_formatSuccess(r.v))
    [] OTHER -> r

\* _getWebhookKey with the priority inverted: DEFAULT_WEBHOOK_KEY || providedKey
_getWebhookKey_defaultFirst(providedKey, defaultKey) ==
  IF ~Truthy(Or(defaultKey, providedKey))
    THEN Threw(WeComError(Num(-1), Str("no webhook_key argument and WECOM_WEBHOOK_KEY is not set"),
                          EmptyObj))
    ELSE Returned(Or(defaultKey, providedKey))

\* _getWebhookKey(providedKey), with the module's DEFAULT_WEBHOOK_KEY
_getWebhookKey(providedKey, defaultKey) ==
  IF ~Truthy(Or(providedKey, defaultKey))
    THEN Threw(WeComError(Num(-1), Str("no webhook_key argument and WECOM_WEBHOOK_KEY is not set"),
                          EmptyObj))
    ELSE Returned(Or(providedKey, defaultKey))

\* handleSendMessage: the try block from `new WeComClient(key)`
handleSendMessage_client(client, content) ==
  IF client.k = "throw" THEN client
  ELSE Call(sendMarkdownV2(client.v, content),
            [fn |-> "handleSendMessage", at |-> "send", client |-> client.v])

\* handleSendMessage: the try block, key being what _getWebhookKey ended in
handleSendMessage_try(key, content) ==
  IF key.k = "throw" THEN key
  ELSE IF ~Truthy(content) \/ TypeOf(content) # "string"
    THEN Threw(WeComError(Num(-1), Str("content must be a non-empty string"), EmptyObj))
  ELSE handleSendMessage_client(WeComClient(key.v), content)

\* handleSendMessage({ webhook_key, content }), to the POST
handleSendMessage(args, defaultKey) ==
  Try(handleSendMessage_try(_getWebhookKey(Get(args, "webhook_key"), defaultKey),
                            Get(args, "content")))

\* handleSendMessage from the reply of the POST
handleSendMessage_onReply(frame, reply) == Try(sendMessage_onReply(reply))

\* handleSendFile: the try block from `new WeComClient(key)`
handleSendFile_client(client, file_path) ==
  IF client.k = "throw" THEN client
  ELSE Call(uploadMedia(client.v, file_path, "file"),
            [fn |-> "handleSendFile", at |-> "read", client |-> client.v,
             file_path |-> file_path])

\* handleSendFile: the try block, key being what _getWebhookKey ended in
handleSendFile_try(key, file_path) ==
  IF key.k = "throw" THEN key
  ELSE IF ~Truthy(file_path) \/ TypeOf(file_path) # "string"
    THEN Threw(WeComError(Num(-1), Str("file_path must be a non-empty string"), EmptyObj))
  ELSE handleSendFile_client(WeComClient(key.v), file_path)

\* handleSendFile({ webhook_key, file_path }), to the file read of uploadMedia
handleSendFile(args, defaultKey) ==
  Try(handleSendFile_try(_getWebhookKey(Get(args, "webhook_key"), defaultKey),
                         Get(args, "file_path")))

\* handleSendFile from the end of the file read, to the upload POST
handleSendFile_onRead(frame, read) ==
  Try(Call(uploadMedia_onRead(frame.client, frame.file_path, "file", read),
           [frame EXCEPT !.at = "upload"]))

\* handleSendFile that goes on to send when uploadMedia threw
handleSendFile_send_anyway(frame, uploadResult) ==
  Call(sendFile(frame.client, IF uploadResult.k = "throw" THEN Str("MEDIA1")
                              ELSE Get(uploadResult.v, "media_id")),
       [fn |-> "handleSendFile", at |-> "send", client |-> frame.client,
        file_path |-> frame.file_path,
        uploadResult |-> IF uploadResult.k = "throw" THEN EmptyObj ELSE uploadResult.v])

\* handleSendFile: `client.sendFile(uploadResult.media_id)`, uploadResult
\* being what uploadMedia ended in
handleSendFile_send(frame, uploadResult) ==
  IF uploadResult.k = "throw" THEN uploadResult
  ELSE Call(sendFile(frame.client, Get(uploadResult.v, "media_id")),
            [fn |-> "handleSendFile", at |-> "send", client |-> frame.client,
             file_path |-> frame.file_path, uploadResult |-> uploadResult.v])

\* handleSendFile from the reply of the upload POST, to the send POST
handleSendFile_onUpload(frame, reply) ==
  Try(handleSendFile_send(frame, uploadMedia_onReply(reply)))

\* handleSendFile: the value returned, sendResult being what sendFile ended in
handleSendFile_return(frame, sendResult) ==
  IF sendResult.k = "throw" THEN sendResult
  ELSE Returned(Obj([upload |-> frame.uploadResult, send |-> sendResult.v]))

\* handleSendFile from the reply of the send POST
handleSendFile_onReply(frame, reply) ==
  Try(handleSendFile_return(frame, sendMessage_onReply(reply)))

\* handleSendImage: the try block from `new WeComClient(key)`
handleSendImage_client(client, image_path, image_url) ==
  IF client.k = "throw" THEN client
  ELSE IF Truthy(image_path)
    THEN Call(sendImage(client.v, image_path),
              [fn |-> "handleSendImage", at |-> "read", client |-> client.v,
               image_path |-> image_path])
  ELSE IF Truthy(image_url)
    THEN Call(sendImageFromUrl(client.v, image_url),
              [fn |-> "handleSendImage", at |-> "fetch", client |-> client.v,
               image_url |-> image_url])
  ELSE Returned(Undefined)

\* handleSendImage's try block without the check that rejects both sources
handleSendImage_try_eitherSource(key, image_path, image_url) ==
  IF key.k = "throw" THEN key
  ELSE IF ~Truthy(image_path) /\ ~Truthy(image_url)
    THEN Threw(WeComError(Num(-1), Str("image_path or image_url is required"), EmptyObj))
  ELSE handleSendImage_client(WeComClient(key.v), image_path, image_url)

\* handleSendImage: the try block, key being what _getWebhookKey ended in
handleSendImage_try(key, image_path, image_url) ==
  IF key.k = "throw" THEN key
  ELSE IF ~Truthy(image_path) /\ ~Truthy(image_url)
    THEN Threw(WeComError(Num(-1), Str("image_path or image_url is required"), EmptyObj))
  ELSE IF Truthy(image_path) /\ Truthy(image_url)
    THEN Threw(WeComError(Num(-1), Str("only one of image_path and image_url"), EmptyObj))
  ELSE handleSendImage_client(WeComClient(key.v), image_path, image_url)

\* handleSendImage({ webhook_key, image_path, image_url }), to the file read
\* of sendImage or to the GET of sendImageFromUrl
handleSendImage(args, defaultKey) ==
  Try(handleSendImage_try(_getWebhookKey(Get(args, "webhook_key"), defaultKey),
                          Get(args, "image_path"), Get(args, "image_url")))

\* handleSendImage from the end of the file read, to the send POST
handleSendImage_onRead(frame, read) ==
  Try(Call(sendImage_onRead(frame.client, frame.image_path, read),
           [frame EXCEPT !.at = "send"]))

\* handleSendImage from the reply of the GET, to the send POST
handleSendImage_onFetch(frame, reply) ==
  Try(Call(sendImageFromUrl_onReply(frame.client, reply), [frame EXCEPT !.at = "send"]))

\* handleSendImage from the reply of the send POST
handleSendImage_onReply(frame, reply) == Try(sendMessage_onReply(reply))

\* handle(name, args)
handle(name, args, defaultKey) ==
  IF ~Truthy(name) \/ TypeOf(name) # "string"
    THEN Threw(WeComError(Num(-1), Str("tool name must be a valid string"), EmptyObj))
  ELSE IF name = Str("send_message") THEN handleSendMessage(args, defaultKey)
  ELSE IF name = Str("send_file") THEN handleSendFile(args, defaultKey)
  ELSE IF name = Str("send_image") THEN handleSendImage(args, defaultKey)
  ELSE Threw(WeComError(Num(-1), Fmt("unknown tool; tools are send_message, send_file, send_image: ",
                                     name), EmptyObj))

\* The handler a suspended frame resumes in
resume(frame, result) ==
  CASE frame.fn = "handleSendMessage" -> handleSendMessage_onReply(frame, result)
    [] frame.fn = "handleSendFile" /\ frame.at = "read" -> handleSendFile_onRead(frame, result)
    [] frame.fn = "handleSendFile" /\ frame.at = "upload" -> handleSendFile_onUpload(frame, result)
    [] frame.fn = "handleSendFile" /\ frame.at = "send" -> handleSendFile_onReply(frame, result)
    [] frame.fn = "handleSendImage" /\ frame.at = "read" -> handleSendImage_onRead(frame, result)
    [] frame.fn = "handleSendImage" /\ frame.at = "fetch" -> handleSendImage_onFetch(frame, result)
    [] frame.fn = "handleSendImage" /\ frame.at = "send" -> handleSendImage_onReply(frame, result)

----------------------------------------------------------------------------
(* index.js: MCPServer.  An operator that writes returns the JSON texts it *)
(* writes, in order (written), with what the handler goes on to do (k):    *)
(*   done       the handler's promise is settled and nothing is pending    *)
(*   throw      the segment threw err to its caller                        *)
(*   micro      the response msg is written once the microtasks run        *)
(*   io         the handler waits for io and resumes in frame              *)
(*   rejected   the promise handleLine returned was rejected               *)

Done == [pc |-> "done"]

\* _sendJSON(obj): the line written to stdout
_sendJSON(obj) == JSONstringify(obj)

\* sendResponse(id, result)
sendResponse(id, result) ==
  _sendJSON(Obj([jsonrpc |-> Str("2.0"), id |-> id, result |-> result]))

\* sendError(id, code, message, data = null)
sendError(id, code, message, data) ==
  LET d == IF data.t = "undefined" THEN Null ELSE data
      e == [code |-> Num(code), message |-> Str(message)]
  IN _sendJSON(Obj([jsonrpc |-> Str("2.0"), id |-> id,
                    error |-> IF d # Null THEN Obj(e @@ [data |-> d]) ELSE Obj(e)]))

\* sendNotification(method, params = {})
sendNotification(method) ==
  _sendJSON(Obj([jsonrpc |-> Str("2.0"), method |-> Str(method), params |-> EmptyObj]))

\* _truncateString(str, maxLength): reads str.length
_truncateString(str) ==
  IF Nullish(str) THEN Threw(TypeError("Cannot read properties of undefined (reading 'length')"))
                  ELSE Returned(str)

\* handleInitialize that leaves the server descriptor out
handleInitialize_anonymous(request) ==
  sendResponse(Get(request, "id"),
               Obj([protocolVersion |-> MCP_VERSION,
                    capabilities |-> Obj([tools |-> EmptyObj, resources |-> EmptyObj,
                                          prompts |-> EmptyObj])]))

\* handleInitialize(request)
handleInitialize(request) ==
  sendResponse(Get(request, "id"),
               Obj([protocolVersion |-> MCP_VERSION,
                    capabilities |-> Obj([tools |-> EmptyObj, resources |-> EmptyObj,
                                          prompts |-> EmptyObj]),
                    serverInfo |-> SERVER_INFO]))

\* handleToolsList(request)
handleToolsList(request) ==
  sendResponse(Get(request, "id"),
               Obj([tools |-> Arr([i \in 1..Len(tools) |->
                      Obj([name |-> Get(tools[i], "name"),
                           description |-> Get(tools[i], "description"),
                           inputSchema |-> Get(tools[i], "inputSchema")])])]))

\* handleToolsCall from the outcome of toolHandler.handle: the response written
handleToolsCall_onResult(request, result) ==
  IF result.k = "throw"
    THEN sendError(Get(request, "id"), INTERNAL_ERROR, "Tool execution failed", result.err.message)
    ELSE sendResponse(Get(request, "id"), result.v)

\* handleToolsCall that writes nothing when handle settles without any I/O
handleToolsCall_await_silent(request, result) ==
  IF result.k = "await"
    THEN [written |-> <<>>, k |-> [pc |-> "io", io |-> result.io, frame |-> result.frame]]
    ELSE [written |-> <<>>, k |-> Done]

\* handleToolsCall at `await this.toolHandler.handle(...)`, result being
\* what handle ended in so far
handleToolsCall_await(request, result) ==
  IF result.k = "await"
    THEN [written |-> <<>>, k |-> [pc |-> "io", io |-> result.io, frame |-> result.frame]]
    ELSE [written |-> <<>>,
          k |-> [pc |-> "micro", msg |-> handleToolsCall_onResult(request, result)]]

\* handleToolsCall from the log line on, logged being what evaluating the
\* log line's _truncateString(JSON.stringify(args), 200) ended in
handleToolsCall_call(request, name, args, logged, defaultKey) ==
  IF logged.k = "throw"
    THEN [written |-> <<>>, k |-> [pc |-> "throw", err |-> logged.err]]
    ELSE handleToolsCall_await(request, handle(name, Or(args, EmptyObj), defaultKey))

\* handleToolsCall whose missing-name branch lacks the return: the error is
\* written and the call goes on to the dispatcher
handleToolsCall_params_noReturn(request, params, defaultKey) ==
  LET r == handleToolsCall_call(request, Get(params, "name"), Get(params, "arguments"),
                                _truncateString(JSONstringify(Get(params, "arguments"))),
                                defaultKey)
  IN IF ~Truthy(Get(params, "name"))
       THEN [written |-> <<sendError(Get(request, "id"), INVALID_PARAMS, "Invalid params",
                                     Str("tool name is missing"))>>,
             k |-> r.k]
       ELSE r

\* handleToolsCall given `const { name, arguments: args } = params || {}`
handleToolsCall_params(request, params, defaultKey) ==
  IF ~Truthy(Get(params, "name"))
    THEN [written |-> <<sendError(Get(request, "id"), INVALID_PARAMS, "Invalid params",
                                  Str("tool name is missing"))>>,
          k |-> Done]
    ELSE handleToolsCall_call(request, Get(params, "name"), Get(params, "arguments"),
                              _truncateString(JSONstringify(Get(params, "arguments"))),
                              defaultKey)

\* handleToolsCall(request), to the await of toolHandler.handle
handleToolsCall(request, defaultKey) ==
  handleToolsCall_params(request, Or(Get(request, "params"), EmptyObj), defaultKey)

\* What a handler that leaves the readiness flag alone hands routeRequest
Keeping(flag, r) == [written |-> r.written, flag |-> flag, k |-> r.k]

\* routeRequest that refuses tools/call until the client has sent initialized
routeRequest_gated(request, flag, defaultKey) ==
  LET method == Get(request, "method")
      id == Get(request, "id")
      sync(msg) == [written |-> <<msg>>, flag |-> flag, k |-> Done]
  IN CASE method = Str("initialized") -> [written |-> <<>>, flag |-> TRUE, k |-> Done]
       [] method = Str("tools/call") /\ flag ->
            Keeping(flag, handleToolsCall(request, defaultKey))
       [] method = Str("tools/call") /\ ~flag ->
            sync(sendError(id, INVALID_REQUEST, "Invalid Request",
                           Str("server not initialized")))
       [] OTHER -> sync(sendResponse(id, EmptyObj))

\* routeRequest(request): also the value it leaves in isInitialized
routeRequest(request, flag, defaultKey) ==
  LET method == Get(request, "method")
      id == Get(request, "id")
      sync(msg) == [written |-> <<msg>>, flag |-> flag, k |-> Done]
  IN CASE method = Str("initialize") -> sync(handleInitialize(request))
       [] method = Str("initialized") -> [written |-> <<>>, flag |-> TRUE, k |-> Done]
       [] method = Str("ping") -> sync(sendResponse(id, EmptyObj))
       [] method = Str("tools/list") -> sync(handleToolsList(request))
       [] method = Str("tools/call") -> Keeping(flag, handleToolsCall(request, defaultKey))
       [] method = Str("resources/list") -> sync(sendResponse(id, Obj([resources |-> Arr(<<>>)])))
       [] method = Str("resources/read") ->
            sync(sendError(id, METHOD_NOT_FOUND, "Method not found",
                           Str("resource reading is not supported")))
       [] method = Str("prompts/list") -> sync(sendResponse(id, Obj([prompts |-> Arr(<<>>)])))
       [] method = Str("prompts/get") ->
            sync(sendError(id, METHOD_NOT_FOUND, "Method not found",
                           Str("prompts are not supported")))
       [] OTHER -> sync(sendError(id, METHOD_NOT_FOUND, "Method not found",
                                  Fmt("unknown method: ", method)))

\* handleLine: `try { await this.routeRequest(request) } catch (error)
\* { ... }`, r being what routeRequest ended in so far
handleLine_try(request, r) ==
  IF r.k.pc = "throw"
    THEN [written |-> r.written, flag |-> r.flag,
          k |-> [pc |-> "micro",
                 msg |-> sendError(Get(request, "id"), INTERNAL_ERROR, "Internal error",
                                   r.k.err.message)]]
    ELSE r

\* handleLine without the `if (!trimmedLine) return`: a blank line goes to
\* JSON.parse, which throws on it
handleLine_parsesBlank(line, flag, defaultKey) ==
  IF line.kind \in {"blank", "text"}
    THEN [written |-> <<sendError(Null, PARSE_ERROR, "Parse error",
                                  Str("Unexpected token in JSON"))>>,
          flag |-> flag, k |-> Done]
  ELSE IF Nullish(line.v)
    THEN [written |-> <<>>, flag |-> flag, k |-> [pc |-> "rejected"]]
  ELSE IF Get(line.v, "jsonrpc") # Str("2.0")
    THEN [written |-> <<sendError(Get(line.v, "id"), INVALID_REQUEST, "Invalid Request",
                                  Str("unsupported JSON-RPC version, only 2.0"))>>,
          flag |-> flag, k |-> Done]
  ELSE handleLine_try(line.v, routeRequest(line.v, flag, defaultKey))

\* handleLine that writes the Invalid Request error after an await
handleLine_lateReject(line, flag, defaultKey) ==
  IF line.kind = "blank" THEN [written |-> <<>>, flag |-> flag, k |-> Done]
  ELSE IF line.kind = "text"
    THEN [written |-> <<sendError(Null, PARSE_ERROR, "Parse error",
                                  Str("Unexpected token in JSON"))>>,
          flag |-> flag, k |-> Done]
  ELSE IF Nullish(line.v)
    THEN [written |-> <<>>, flag |-> flag, k |-> [pc |-> "rejected"]]
  ELSE IF Get(line.v, "jsonrpc") # Str("2.0")
    THEN [written |-> <<>>, flag |-> flag,
          k |-> [pc |-> "micro",
                 msg |-> sendError(Get(line.v, "id"), INVALID_REQUEST, "Invalid Request",
                                   Str("unsupported JSON-RPC version, only 2.0"))]]
  ELSE handleLine_try(line.v, routeRequest(line.v, flag, defaultKey))

\* handleLine(line), to its first pending await.  line.kind: "blank" (empty
\* after trim), "text" (not JSON), "json" (the text of the JSON value v).
handleLine(line, flag, defaultKey) ==
  IF line.kind = "blank" THEN [written |-> <<>>, flag |-> flag, k |-> Done]
  ELSE IF line.kind = "text"
    THEN [written |-> <<sendError(Null, PARSE_ERROR, "Parse error",
                                  Str("Unexpected token in JSON"))>>,
          flag |-> flag, k |-> Done]
  ELSE IF Nullish(line.v)
    THEN [written |-> <<>>, flag |-> flag, k |-> [pc |-> "rejected"]]
  ELSE IF Get(line.v, "jsonrpc") # Str("2.0")
    THEN [written |-> <<sendError(Get(line.v, "id"), INVALID_REQUEST, "Invalid Request",
                                  Str("unsupported JSON-RPC version, only 2.0"))>>,
          flag |-> flag, k |-> Done]
  ELSE handleLine_try(line.v, routeRequest(line.v, flag, defaultKey))

----------------------------------------------------------------------------
(* The event loop *)

\* The I/O a handler has started: HTTP requests in http, file reads in reads
Started(k) ==
  [http |-> IF k.pc = "io" /\ k.io.op # "read" THEN <<k.io>> ELSE <<>>,
   reads |-> IF k.pc = "io" /\ k.io.op = "read" THEN <<k.io.path>> ELSE <<>>]

Tagged(i, written) == [j \in 1..Len(written) |-> [line |-> i, msg |-> written[j]]]

\* Microtasks run before the next I/O callback, signal or rejection report
MicrotasksPending == \E i \in 1..Len(calls) : calls[i].k.pc = "micro"

\* The state after the synchronous part e of the handler of a new line
Handled(line, e) ==
  /\ calls' = Append(calls, [line |-> line, k |-> e.k,
                             http |-> Started(e.k).http, reads |-> Started(e.k).reads,
                             replies |-> <<>>])
  /\ out' = out \o Tagged(Len(calls) + 1, e.written)
  /\ isInitialized' = e.flag

\* A 'line' event: rl.on('line', this.handleLine), up to the handler's first
\* pending await.  readline emits the lines of one chunk in a row, so a line
\* can be read while microtasks of earlier lines are still queued.
ReadLine(line) ==
  /\ status = "running"
  /\ \E e \in {handleLine(line, isInitialized, DEFAULT_WEBHOOK_KEY)} : Handled(line, e)
  /\ UNCHANGED <<status, DEFAULT_WEBHOOK_KEY>>

\* The queued continuation of line i's handler writes its response
Microtask(i) ==
  /\ status = "running"
  /\ i \in DOMAIN calls
  /\ calls[i].k.pc = "micro"
  /\ out' = Append(out, [line |-> i, msg |-> calls[i].k.msg])
  /\ calls' = [calls EXCEPT ![i].k = Done]
  /\ UNCHANGED <<isInitialized, status, stdin, DEFAULT_WEBHOOK_KEY>>

\* A resumed handler that answers the request read last (the request kept in
\* a field of the server in place of the handler's own variable)
Resumed_lastRequest(i, r, result) ==
  IF r.k = "await"
    THEN /\ calls' = [calls EXCEPT ![i].k = [pc |-> "io", io |-> r.io, frame |-> r.frame],
                                   ![i].replies = Append(@, result),
                                   ![i].http = @ \o (IF r.io.op # "read" THEN <<r.io>> ELSE <<>>),
                                   ![i].reads = @ \o (IF r.io.op = "read" THEN <<r.io.path>> ELSE <<>>)]
         /\ out' = out
    ELSE /\ calls' = [calls EXCEPT ![i].k = Done, ![i].replies = Append(@, result)]
         /\ out' = Append(out, [line |-> i,
                                msg |-> handleToolsCall_onResult(
                                          IF calls[Len(calls)].line.kind = "json"
                                            THEN calls[Len(calls)].line.v ELSE Null, r)])

\* The state after line i's handler resumed with result and ended in r
Resumed(i, r, result) ==
  IF r.k = "await"
    THEN /\ calls' = [calls EXCEPT ![i].k = [pc |-> "io", io |-> r.io, frame |-> r.frame],
                                   ![i].replies = Append(@, result),
                                   ![i].http = @ \o (IF r.io.op # "read" THEN <<r.io>> ELSE <<>>),
                                   ![i].reads = @ \o (IF r.io.op = "read" THEN <<r.io.path>> ELSE <<>>)]
         /\ out' = out
    ELSE /\ calls' = [calls EXCEPT ![i].k = Done, ![i].replies = Append(@, result)]
         /\ out' = Append(out, [line |-> i,
                                msg |-> handleToolsCall_onResult(calls[i].line.v, r)])

\* The I/O line i's handler waits for completes with result; the handler
\* runs to its next I/O or to the response of handleToolsCall
Complete(i, result) ==
  /\ status = "running"
  /\ i \in DOMAIN calls
  /\ ~MicrotasksPending
  /\ calls[i].k.pc = "io"
  /\ \E r \in {resume(calls[i].k.frame, result)} : Resumed(i, r, result)
  /\ UNCHANGED <<isInitialized, status, stdin, DEFAULT_WEBHOOK_KEY>>

\* shutdown() that exits without the closed notification
shutdown_quiet ==
  /\ status = "running"
  /\ ~MicrotasksPending
  /\ status' = "exited"
  /\ UNCHANGED <<isInitialized, calls, out, stdin, DEFAULT_WEBHOOK_KEY>>

\* shutdown(): SIGINT, SIGTERM or the end of stdin
shutdown ==
  /\ status = "running"
  /\ ~MicrotasksPending
  /\ out' = Append(out, [line |-> 0, msg |-> sendNotification("notifications/closed")])
  /\ status' = "exited"
  /\ UNCHANGED <<isInitialized, calls, stdin, DEFAULT_WEBHOOK_KEY>>

\* Node reports the rejected promise of line i's handleLine, which nothing
\* handles: the process dies of it (the default since Node 15) ...
UnhandledRejectionExit(i) ==
  /\ status = "running"
  /\ i \in DOMAIN calls
  /\ ~MicrotasksPending
  /\ calls[i].k.pc = "rejected"
  /\ status' = "crashed"
  /\ UNCHANGED <<isInitialized, calls, out, stdin, DEFAULT_WEBHOOK_KEY>>

\* ... or only warns on stderr (older Node, --unhandled-rejections=warn)
UnhandledRejectionWarn(i) ==
  /\ status = "running"
  /\ i \in DOMAIN calls
  /\ ~MicrotasksPending
  /\ calls[i].k.pc = "rejected"
  /\ calls' = [calls EXCEPT ![i].k = Done]
  /\ UNCHANGED <<isInitialized, status, out, stdin, DEFAULT_WEBHOOK_KEY>>

----------------------------------------------------------------------------
(* The environment: what the file system and the network answer *)

MB == 1024 * 1024

OkBody == Obj([errcode |-> Num(0), errmsg |-> Str("ok")])
ErrBody == Obj([errcode |-> Num(93000), errmsg |-> Str("invalid webhook url")])
UploadedBody == Obj([errcode |-> Num(0), errmsg |-> Str("ok"), type |-> Str("file"),
                     media_id |-> Str("MEDIA1"), created_at |-> Str("1380000000")])
Response(code, data) == [k |-> "response", status |-> code, data |-> data]
NetworkError == [k |-> "error", message |-> Str("timeout of 30000ms exceeded")]
Fetched(code, size) == [k |-> "response", status |-> code, size |-> size]
FileData(size) == [k |-> "data", size |-> size]

AllResults(op) ==
  CASE op = "read" -> {[k |-> "ENOENT"], [k |-> "EACCES"]}
                      \cup {FileData(n) : n \in {0, 5, 6, 2 * MB, 2 * MB + 1, 20 * MB, 20 * MB + 1}}
    [] op = "send" -> {Response(200, OkBody), Response(200, ErrBody),
                       Response(200, Obj([errcode |-> Num(45009)])),
                       Response(200, Str("<html>")), Response(200, Null),
                       Response(500, Str("")), Response(400, ErrBody), NetworkError}
    [] op = "upload" -> {Response(200, UploadedBody), Response(200, OkBody),
                         Response(200, ErrBody), Response(200, Null),
                         Response(500, Str("")), Response(400, ErrBody), NetworkError}
    [] op = "fetch" -> {Fetched(200, 0), Fetched(200, 2 * MB), Fetched(200, 2 * MB + 1),
                        Fetched(404, 0), NetworkError}

SomeResults(op) ==
  CASE op = "read" -> {[k |-> "ENOENT"], FileData(6)}
    [] op = "send" -> {Response(200, OkBody), Response(200, ErrBody)}
    [] op = "upload" -> {Response(200, UploadedBody), NetworkError}
    [] op = "fetch" -> {Fetched(200, 6), Fetched(404, 0)}

----------------------------------------------------------------------------
(* The input lines *)

MaxLines == 2

\* The JSON text of an object: JSON has no undefined, so a member given as
\* Undefined here is a member the text does not have
JsonLine(o) == [kind |-> "json", v |-> JSONstringify(Obj(o))]
Request(jsonrpc, id, method, params) ==
  JsonLine([jsonrpc |-> jsonrpc, id |-> id, method |-> method, params |-> params])
Params(name, arguments) == JSONstringify(Obj([name |-> name, arguments |-> arguments]))
Args(o) == JSONstringify(Obj(o))

Methods == {Str("initialize"), Str("initialized"), Str("ping"), Str("tools/list"),
            Str("tools/call"), Str("resources/list"), Str("resources/read"),
            Str("prompts/list"), Str("prompts/get")}

Ascii(n) == Text(<<[w |-> 1, n |-> n]>>)
PdfPath == Chars(<<"/", "d", "/", "a", ".", "p", "d", "f">>)
PngPath == Chars(<<"a", ".", "P", "N", "G">>)
GifPath == Chars(<<"a", ".", "g", "i", "f">>)
PngUrl == Chars(<<"h", "t", "t", "p", ":", "/", "/", "h", "/", "a">>)
BadUrl == Chars(<<"h", "/", "a">>)

\* Lines that are no request object
OddLines == {[kind |-> "blank"], [kind |-> "text"],
             [kind |-> "json", v |-> Null], [kind |-> "json", v |-> Num(7)],
             [kind |-> "json", v |-> Str("ping")], [kind |-> "json", v |-> Arr(<<>>)]}

\* What a tools/call line of the server's input carries as params
RouterParams ==
  {Params(Str(""), EmptyObj),
   Params(Num(5), EmptyObj),
   Params(Str("nope"), EmptyObj),
   Params(Str("send_message"), Undefined),
   Params(Str("send_message"), Args([content |-> Ascii(2)])),
   Params(Str("send_message"), Args([webhook_key |-> Str("KEY1"), content |-> Ascii(2)])),
   Params(Str("send_file"), Args([webhook_key |-> Str("KEY1"), file_path |-> PdfPath])),
   Params(Str("send_image"), Args([webhook_key |-> Str("KEY1"), image_path |-> PngPath])),
   Params(Str("send_image"), Args([webhook_key |-> Str("KEY1"), image_url |-> PngUrl]))}

GoodParams == Params(Str("send_message"), Args([webhook_key |-> Str("KEY1"), content |-> Ascii(2)]))

RouterLines ==
  OddLines
  \cup {Request(Str("2.0"), Num(1), m, Undefined) : m \in Methods \cup {Str("foo"), Undefined}}
  \cup {Request(Str("2.0"), Undefined, m, Undefined) :
          m \in {Str("initialized"), Str("ping"), Str("foo")}}
  \cup {Request(Str("2.0"), IF Get(p, "name") = Str("send_message") THEN Num(2) ELSE Str("a"),
                Str("tools/call"), p) : p \in RouterParams}
  \cup {Request(Str("2.0"), Undefined, Str("tools/call"), GoodParams),
        Request(Str("1.0"), Num(2), Str("ping"), Undefined),
        Request(Undefined, Undefined, Str("initialized"), Undefined),
        Request(Str("1.0"), Num(2), Str("tools/call"), GoodParams)}

\* The I/O of line i's handler completes, in one of the ways the server's
\* environment answers
Completes(i) ==
  /\ i \in DOMAIN calls
  /\ calls[i].k.pc = "io"
  /\ \E r \in SomeResults(calls[i].k.io.op) : Complete(i, r)

----------------------------------------------------------------------------
(* The server: lines arrive while the process runs *)

Init ==
  /\ isInitialized = FALSE
  /\ status = "running"
  /\ calls = <<>>
  /\ out = <<>>
  /\ stdin = <<>>
  /\ DEFAULT_WEBHOOK_KEY \in {Null, Str("ENVKEY")}

Next ==
  \/ \E line \in RouterLines : Len(calls) < MaxLines /\ ReadLine(line) /\ stdin' = stdin
  \/ \E i \in 1..Len(calls) : Microtask(i)
  \/ \E i \in 1..Len(calls) : Completes(i)
  \/ shutdown
  \/ \E i \in 1..Len(calls) : UnhandledRejectionExit(i)
  \/ \E i \in 1..Len(calls) : UnhandledRejectionWarn(i)

Spec == Init /\ [][Next]_vars

\* The same server under the scheduling Node guarantees: queued microtasks
\* run, and every file read and HTTP exchange ends (the stream ends or
\* fails; axios is given timeouts of 30 s and 60 s).  Nothing obliges the
\* client to send lines or the host to signal.
Fairness ==
  \A i \in 1..MaxLines :
    /\ WF_vars(Microtask(i))
    /\ WF_vars(Completes(i))

\* The lines of the fair runs: tool invocations that fail at once, that make
\* one request, and that read a file and make two, with a request answered
\* at once and the line the process can die of
CallLines ==
  {[kind |-> "json", v |-> Null], Request(Str("2.0"), Num(1), Str("ping"), Undefined)}
  \cup {Request(Str("2.0"), Num(2), Str("tools/call"), p) :
          p \in {Params(Str("nope"), EmptyObj),
                 GoodParams,
                 Params(Str("send_file"), Args([webhook_key |-> Str("KEY1"), file_path |-> PdfPath]))}}

CallNext ==
  \/ \E line \in CallLines : Len(calls) < MaxLines /\ ReadLine(line) /\ stdin' = stdin
  \/ \E i \in 1..Len(calls) : Microtask(i)
  \/ \E i \in 1..Len(calls) : Completes(i)
  \/ shutdown
  \/ \E i \in 1..Len(calls) : UnhandledRejectionExit(i)
  \/ \E i \in 1..Len(calls) : UnhandledRejectionWarn(i)

FairSpec == Init /\ [][CallNext]_vars /\ Fairness

----------------------------------------------------------------------------
(* One capability invocation: the input stream holds a single tools/call   *)
(* line, and the file system and the network answer in every way.          *)

Keys == {Undefined, Str(""), Str("KEY1"), Num(5)}

Contents == {Undefined, Text(<<>>), Num(42), Ascii(1), Ascii(4096), Ascii(4097),
             Text(<<[w |-> 3, n |-> 1365], [w |-> 1, n |-> 1]>>),
             Text(<<[w |-> 3, n |-> 1366]>>)}

ToolParams ==
  {Params(Str("nope"), EmptyObj), Params(Num(5), EmptyObj),
   Params(Str("send_image"), Undefined)}
  \cup {Params(Str("send_message"), Args([webhook_key |-> key, content |-> c])) :
          key \in Keys, c \in Contents}
  \cup {Params(Str("send_file"), Args([webhook_key |-> key, file_path |-> f])) :
          key \in Keys, f \in {Undefined, Chars(<<>>), Num(9), PdfPath}}
  \cup {Params(Str("send_image"), Args([webhook_key |-> key, image_path |-> f, image_url |-> u])) :
          key \in {Undefined, Str("KEY1")},
          f \in {Undefined, Chars(<<>>), Num(5), PngPath, GifPath},
          u \in {Undefined, Chars(<<>>), PngUrl, BadUrl}}

ToolLines == {Request(Str("2.0"), Num(1), Str("tools/call"), p) : p \in ToolParams}

ToolInit ==
  /\ isInitialized = FALSE
  /\ status = "running"
  /\ calls = <<>>
  /\ out = <<>>
  /\ stdin \in {<<line>> : line \in ToolLines}
  /\ DEFAULT_WEBHOOK_KEY \in {Null, Str("ENVKEY")}

ToolNext ==
  \/ stdin # <<>> /\ ReadLine(Head(stdin)) /\ stdin' = Tail(stdin)
  \/ \E i \in 1..Len(calls) : Microtask(i)
  \/ \E i \in 1..Len(calls) :
       calls[i].k.pc = "io" /\ \E r \in AllResults(calls[i].k.io.op) : Complete(i, r)

ToolSpec == ToolInit /\ [][ToolNext]_vars

----------------------------------------------------------------------------
(* What the properties below speak of *)

\* The JSON value line i parsed to (lines that are JSON only)
IsJson(i) == calls[i].line.kind = "json"
Value(i) == calls[i].line.v

\* Line i is a request of protocol version "2.0"
Versioned(i) == IsJson(i) /\ Get(Value(i), "jsonrpc") = Str("2.0")

\* Line i carries an identifier
HasId(i) == Get(Value(i), "id") # Undefined

\* Line i is a tools/call request line
ToolsCall(i) == IsJson(i) /\ Get(Value(i), "method") = Str("tools/call")

\* The positions in the output of the messages written for line i
Replies(i) == {j \in 1..Len(out) : out[j].line = i}
Answered(i) == Replies(i) # {}

\* Line i's handler has ended
Settled(i) == calls[i].k.pc = "done"

\* Line i's handler has started no file read and no HTTP request
NoIO(i) == calls[i].http = <<>> /\ calls[i].reads = <<>> /\ calls[i].k.pc # "io"

\* Line i got exactly one message, a JSON-RPC error of this code and id
OneError(i, code, id) ==
  /\ Cardinality(Replies(i)) = 1
  /\ \A j \in Replies(i) :
       /\ Get(out[j].msg, "id") = id
       /\ Get(Get(out[j].msg, "error"), "code") = Num(code)
       /\ "result" \notin DOMAIN out[j].msg.o

\* The name and the argument record of the tool invocation of line i
ToolName(i) == Get(Get(Value(i), "params"), "name")
ToolArgs(i) == Get(Get(Value(i), "params"), "arguments")

\* Line i invokes the capability name with an argument record
Invokes(i, name) ==
  /\ Versioned(i) /\ ToolsCall(i)
  /\ ToolName(i) = Str(name)
  /\ ToolArgs(i).t = "object"

\* The credential of the invocation of line i: the per-call webhook_key
\* when it is non-empty, the configured default otherwise
Credential(i) ==
  IF Get(ToolArgs(i), "webhook_key") \notin {Undefined, Null, Str("")}
    THEN Get(ToolArgs(i), "webhook_key")
    ELSE DEFAULT_WEBHOOK_KEY

HasCredential(i) == Credential(i).t = "string" /\ Credential(i) # Str("")

\* What the text of an envelope denotes: {error, message, code, data}
Failure(env) == Get(Get(env, "content").a[1], "text").json

\* Line i was answered with exactly one message, a result that is the
\* error envelope of an InvalidInput failure (WeComError, code -1)
InvalidInput(i) ==
  /\ Cardinality(Replies(i)) = 1
  /\ \A j \in Replies(i) :
       LET env == Get(out[j].msg, "result")
       IN /\ env.t = "object"
          /\ Get(env, "isError") = Bool(TRUE)
          /\ Get(Failure(env), "error") = Str("WeComError")
          /\ Get(Failure(env), "code") = Num(-1)

\* This step reads a line of this kind
Reads(kind) == Len(calls') = Len(calls) + 1 /\ calls'[Len(calls')].line.kind = kind

----------------------------------------------------------------------------
(* Properties of the router (Spec, FairSpec) *)

\* C1, as stated: every tools/call line the router has read eventually has a
\* response on the output, in every execution.
C1_EveryToolsCallAnswered ==
  \A i \in 1..MaxLines : (i \in DOMAIN calls /\ ToolsCall(i)) ~> (i \in DOMAIN calls /\ Answered(i))

\* C1, amended: every tools/call line the router has read eventually has a
\* response on the output, unless the process ends first (shutdown() on a
\* signal or the end of stdin, or a crash, exits with the call in flight).
C1_ToolsCallAnsweredUnlessProcessEnds ==
  \A i \in 1..MaxLines :
    (i \in DOMAIN calls /\ ToolsCall(i)) ~> ((i \in DOMAIN calls /\ Answered(i)) \/ status # "running")

\* A tools/call that made two HTTP requests was answered while the process
\* runs and another line has been read
C1_Witness ==
  /\ status = "running"
  /\ Len(calls) = 2
  /\ ToolsCall(1) /\ Len(calls[1].http) = 2 /\ Settled(1) /\ Answered(1)

\* C2: no input line terminates the process, and every failure raised while
\* a line is handled is turned into an error response (no handler's promise
\* is left rejected).
C2_NoLineEndsTheProcess ==
  /\ status # "crashed"
  /\ \A i \in 1..Len(calls) : calls[i].k.pc # "rejected"

\* C3: every message written for a line whose jsonrpc is "2.0" and that
\* carries an identifier carries exactly that identifier.
C3_ResponseCarriesRequestId ==
  \A j \in 1..Len(out) :
    (out[j].line > 0 /\ Versioned(out[j].line) /\ HasId(out[j].line))
      => Get(out[j].msg, "id") = Get(Value(out[j].line), "id")

\* A tools/call answered after the line read after it was answered, the two
\* lines carrying different identifiers
C3_Witness ==
  /\ Len(calls) = 2 /\ Len(out) = 2
  /\ Versioned(1) /\ ToolsCall(1) /\ HasId(1) /\ calls[1].http # <<>>
  /\ Versioned(2) /\ HasId(2) /\ Get(Value(2), "id") # Get(Value(1), "id")
  /\ out[1].line = 2 /\ out[2].line = 1

\* C4: a line with jsonrpc "2.0" and no identifier never has a message
\* written for it.
C4_NotificationsWriteNothing ==
  \A j \in 1..Len(out) :
    (out[j].line > 0 /\ Versioned(out[j].line)) => HasId(out[j].line)

\* C5: a parsed line whose jsonrpc is not "2.0" gets exactly one Invalid
\* Request error echoing its identifier; no handler runs for it and it
\* starts no I/O.
C5_OtherVersionsRejected ==
  \A i \in 1..Len(calls) :
    (IsJson(i) /\ Get(Value(i), "jsonrpc") # Str("2.0"))
      => /\ OneError(i, INVALID_REQUEST, Get(Value(i), "id"))
         /\ Settled(i) /\ NoIO(i)

\* C6: a line that is not JSON gets exactly one Parse error with a null
\* identifier and nothing is dispatched for it; a blank line gets no message;
\* reading either leaves the readiness flag and the process as they are, and
\* reading a blank line leaves the output as it is.
C6_ParseErrorAndBlankLine ==
  /\ [](\A i \in 1..Len(calls) :
          /\ calls[i].line.kind = "text" => OneError(i, PARSE_ERROR, Null) /\ Settled(i) /\ NoIO(i)
          /\ calls[i].line.kind = "blank" => ~Answered(i) /\ Settled(i) /\ NoIO(i))
  /\ [][(Reads("blank") \/ Reads("text"))
          => isInitialized' = isInitialized /\ status' = status]_vars
  /\ [][Reads("blank") => out' = out]_vars

\* A line that is not JSON was answered and a blank line was read after it
C6_Witness ==
  /\ Len(calls) = 2
  /\ calls[1].line.kind = "text" /\ calls[2].line.kind = "blank"
  /\ Replies(1) # {} /\ Len(out) = 1

\* C7: every tools/call line that names a tool is answered with a result
\* envelope, never with a JSON-RPC error.
C7_ToolsCallAnsweredWithEnvelope ==
  \A j \in 1..Len(out) :
    (out[j].line > 0 /\ Versioned(out[j].line) /\ ToolsCall(out[j].line)
       /\ Truthy(ToolName(out[j].line)))
      => "result" \in DOMAIN out[j].msg.o

----------------------------------------------------------------------------
(* Properties of one capability invocation (ToolSpec) *)

Capabilities == {"send_message", "send_file", "send_image"}

C9_ContentValidation ==
  \A i \in 1..Len(calls) :
    Invokes(i, "send_message") =>
      IF \/ Get(ToolArgs(i), "content").t # "string"
         \/ Utf8Bytes(Get(ToolArgs(i), "content").cp) = 0
         \/ Utf8Bytes(Get(ToolArgs(i), "content").cp) > 4096
        THEN /\ NoIO(i)
             /\ Settled(i) => InvalidInput(i)
        ELSE HasCredential(i) =>
               /\ Len(calls[i].http) = 1
               /\ calls[i].http[1].op = "send"
               /\ calls[i].http[1].body =
                    Obj([msgtype |-> Str("markdown_v2"),
                         markdown_v2 |-> Obj([content |-> Get(ToolArgs(i), "content")])])

\* Content of 1366 characters and 4098 bytes was rejected with no request
C9_Witness ==
  /\ Len(calls) = 1 /\ Invokes(1, "send_message") /\ HasCredential(1)
  /\ Get(ToolArgs(1), "content") = Text(<<[w |-> 3, n |-> 1366]>>)
  /\ Settled(1) /\ InvalidInput(1) /\ calls[1].http = <<>>

\* C10: send_image with both of image_path and image_url set (non-empty),
\* or with neither, ends in an InvalidInput envelope with no file read and
\* no HTTP request; with image_path only it never fetches a URL, and reads
\* the file when the path is a string and there is a credential; with
\* image_url only it never reads a file, and fetches the URL when it is a
\* well-formed URL and there is a credential.
C10_ExactlyOneImageSource ==
  \A i \in 1..Len(calls) :
    Invokes(i, "send_image") =>
      LET image_path == Get(ToolArgs(i), "image_path")
          image_url == Get(ToolArgs(i), "image_url")
      IN CASE Truthy(image_path) = Truthy(image_url) ->
                /\ NoIO(i)
                /\ Settled(i) => InvalidInput(i)
           [] Truthy(image_path) /\ ~Truthy(image_url) ->
                /\ \A n \in 1..Len(calls[i].http) : calls[i].http[n].op # "fetch"
                /\ (image_path.t = "string" /\ HasCredential(i)) => calls[i].reads = <<image_path>>
           [] ~Truthy(image_path) /\ Truthy(image_url) ->
                /\ calls[i].reads = <<>>
                /\ (image_url.t = "string" /\ ParsesAsURL(image_url.ch) /\ HasCredential(i))
                     => /\ calls[i].http # <<>>
                        /\ calls[i].http[1].op = "fetch"
                        /\ calls[i].http[1].url = image_url

\* send_image with a credential and both sources set was answered with the
\* error envelope
C10_Witness ==
  /\ Len(calls) = 1 /\ Invokes(1, "send_image") /\ HasCredential(1)
  /\ Get(ToolArgs(1), "image_path") = PngPath /\ Get(ToolArgs(1), "image_url") = PngUrl
  /\ Settled(1) /\ InvalidInput(1) /\ NoIO(1)

\* A remote reply that is a 2xx response whose body has errcode 0
RemoteOk(reply) ==
  /\ reply.k = "response"
  /\ reply.status >= 200 /\ reply.status <= 299
  /\ Get(reply.data, "errcode") = Num(0)

\* The envelope line i was answered with (lines answered once, with a result)
Envelope(i) == Get(out[CHOOSE j \in Replies(i) : TRUE].msg, "result")

\* Line i was answered with exactly one message, a result without error flag
SuccessEnvelope(i) ==
  /\ Cardinality(Replies(i)) = 1
  /\ Envelope(i).t = "object"
  /\ "isError" \notin DOMAIN Envelope(i).o

\* Line i was answered with exactly one message, a result with the error flag
ErrorEnvelope(i) ==
  /\ Cardinality(Replies(i)) = 1
  /\ Envelope(i).t = "object"
  /\ Get(Envelope(i), "isError") = Bool(TRUE)

\* C11: send_file makes at most two requests, the upload first; the send is
\* issued only once the upload of the invocation returned errcode 0, and
\* carries the media_id of that reply; when the file read or the upload
\* failed no send is issued and the envelope is an error; a success envelope
\* holds the upload and the send sub-results.
C11_UploadThenSend ==
  \A i \in 1..Len(calls) :
    Invokes(i, "send_file") =>
      LET http == calls[i].http
          replies == calls[i].replies
      IN /\ Len(http) <= 2
         /\ http # <<>> => /\ http[1].op = "upload"
                           /\ Len(replies) >= 1 /\ replies[1].k = "data"
         /\ Len(http) = 2 =>
              /\ Len(replies) >= 2 /\ RemoteOk(replies[2])
              /\ http[2].op = "send"
              /\ http[2].key = http[1].key
              /\ http[2].body = Obj([msgtype |-> Str("file"),
                                     file |-> Obj([media_id |-> Get(replies[2].data, "media_id")])])
         /\ ((Len(replies) >= 1 /\ replies[1].k # "data")
               \/ (Len(replies) >= 2 /\ ~RemoteOk(replies[2])))
              => /\ Len(http) <= 1
                 /\ Settled(i) /\ ErrorEnvelope(i)
         /\ (Settled(i) /\ ~ErrorEnvelope(i)) =>
              /\ SuccessEnvelope(i)
              /\ Len(http) = 2 /\ Len(replies) = 3 /\ RemoteOk(replies[3])
              /\ Get(Get(Failure(Envelope(i)), "upload"), "media_id")
                   = Get(replies[2].data, "media_id")
              /\ Get(Get(Failure(Envelope(i)), "send"), "data") = replies[3].data

\* send_file read the file, uploaded it, sent the file message and was
\* answered with the success envelope
C11_Witness ==
  /\ Len(calls) = 1 /\ Invokes(1, "send_file") /\ Settled(1)
  /\ Len(calls[1].http) = 2 /\ Len(calls[1].replies) = 3
  /\ SuccessEnvelope(1)

\* The replies of the webhook among what line i's I/O returned
RemoteReplies(i) ==
  {calls[i].replies[n] : n \in {m \in 1..Len(calls[i].replies) :
                                  /\ calls[i].replies[m].k = "response"
                                  /\ "data" \in DOMAIN calls[i].replies[m]}}

\* A webhook reply whose body has a non-zero errcode
RemoteFailure(reply) ==
  /\ Get(reply.data, "errcode").t = "number"
  /\ Get(reply.data, "errcode") # Num(0)

\* C12: an invocation answered with a success envelope got errcode 0 in the
\* body of every webhook reply, and the envelope's text holds the body of the
\* last one; a webhook reply whose body has a non-zero errcode ends the
\* invocation in an error envelope whose text carries that errcode as code,
\* the body's errmsg (when it has one) as message and the body as data.
C12_ErrcodeDecidesEnvelope ==
  \A i \in 1..Len(calls) : \A name \in Capabilities :
    Invokes(i, name) =>
      /\ (Settled(i) /\ SuccessEnvelope(i)) =>
           /\ calls[i].replies # <<>>
           /\ \A r \in RemoteReplies(i) : Get(r.data, "errcode") = Num(0)
           /\ LET last == calls[i].replies[Len(calls[i].replies)]
                  text == Failure(Envelope(i))
              IN /\ last \in RemoteReplies(i)
                 /\ Get(IF name = "send_file" THEN Get(text, "send") ELSE text, "data") = last.data
      /\ \A r \in RemoteReplies(i) :
           RemoteFailure(r) =>
             /\ Settled(i) /\ ErrorEnvelope(i)
             /\ Get(Failure(Envelope(i)), "code") = Get(r.data, "errcode")
             /\ Truthy(Get(r.data, "errmsg"))
                  => Get(Failure(Envelope(i)), "message") = Get(r.data, "errmsg")
             /\ Get(Failure(Envelope(i)), "data") = r.data

\* C13: a file over the limit of its kind (20 MB for the kind "file", the
\* kind send_file uploads with) is rejected with an InvalidInput envelope and
\* no upload request; a file of exactly the limit is uploaded.
C13_OversizeFileRejected ==
  \A i \in 1..Len(calls) :
    (Invokes(i, "send_file") /\ calls[i].replies # <<>> /\ calls[i].replies[1].k = "data") =>
      /\ calls[i].replies[1].size > FILE_SIZE_LIMITS.FILE
           => calls[i].http = <<>> /\ Settled(i) /\ InvalidInput(i)
      /\ calls[i].replies[1].size = FILE_SIZE_LIMITS.FILE
           => calls[i].http # <<>> /\ calls[i].http[1].op = "upload"

\* C14: a file of 5 bytes or fewer (0 included) ends send_file's upload in
\* an InvalidInput envelope with no upload request; a file of 6 bytes is
\* posted in exactly one upload request, and when the reply to it has
\* errcode 0 the upload returns success with the media_id of the reply.
C14_MinimumFileSize ==
  \A i \in 1..Len(calls) :
    (Invokes(i, "send_file") /\ calls[i].replies # <<>> /\ calls[i].replies[1].k = "data") =>
      LET replies == calls[i].replies
          http == calls[i].http
      IN /\ replies[1].size <= 5 => http = <<>> /\ Settled(i) /\ InvalidInput(i)
         /\ replies[1].size = 6 =>
              /\ Cardinality({n \in 1..Len(http) : http[n].op = "upload"}) = 1
              /\ http[1].op = "upload" /\ http[1].media.size = 6
              /\ (Len(replies) = 2 /\ RemoteOk(replies[2])
                    /\ Truthy(Get(replies[2].data, "media_id"))) =>
                   /\ calls[i].k.pc = "io" /\ calls[i].k.frame.at = "send"
                   /\ Get(calls[i].k.frame.uploadResult, "success") = Bool(TRUE)
                   /\ Get(calls[i].k.frame.uploadResult, "media_id")
                        = Get(replies[2].data, "media_id")

\* A file of 5 bytes was rejected without any request
C14_Witness ==
  /\ Len(calls) = 1 /\ Invokes(1, "send_file")
  /\ Len(calls[1].replies) = 1 /\ calls[1].replies[1] = FileData(5)
  /\ calls[1].http = <<>> /\ Settled(1) /\ InvalidInput(1)

----------------------------------------------------------------------------
(* More properties of the router (Spec) *)

\* The one message line i was answered with
Reply(i) == out[CHOOSE j \in Replies(i) : TRUE].msg

\* Line i was answered once, with this result
OneResult(i, result) ==
  /\ Cardinality(Replies(i)) = 1
  /\ Get(Reply(i), "result") = result
  /\ "error" \notin DOMAIN Reply(i).o

\* C15: what each method of a "2.0" request with an identifier is answered
\* with: initialize with protocol version, capabilities and server
\* descriptor; ping with an empty result; tools/list with the three tools;
\* resources/list and prompts/list with empty arrays; resources/read and
\* prompts/get with Method not found; initialized with nothing; tools/call
\* never with Method not found, and with a result envelope when it invokes a
\* capability; any other method, or none, with Method not found whose data
\* carries the method given.
C15_NineMethods ==
  \A i \in 1..Len(calls) :
    (Versioned(i) /\ HasId(i)) =>
      LET method == Get(Value(i), "method")
      IN CASE method = Str("initialize") ->
                /\ Cardinality(Replies(i)) = 1
                /\ Get(Get(Reply(i), "result"), "protocolVersion") = MCP_VERSION
                /\ Get(Get(Reply(i), "result"), "serverInfo") = SERVER_INFO
                /\ Get(Get(Reply(i), "result"), "capabilities").t = "object"
           [] method = Str("ping") -> OneResult(i, EmptyObj)
           [] method = Str("tools/list") ->
                /\ Cardinality(Replies(i)) = 1
                /\ Get(Get(Reply(i), "result"), "tools").t = "array"
                /\ [n \in 1..3 |-> Get(Get(Get(Reply(i), "result"), "tools").a[n], "name")]
                     = <<Str("send_message"), Str("send_file"), Str("send_image")>>
                /\ Len(Get(Get(Reply(i), "result"), "tools").a) = 3
           [] method = Str("resources/list") -> OneResult(i, Obj([resources |-> Arr(<<>>)]))
           [] method = Str("prompts/list") -> OneResult(i, Obj([prompts |-> Arr(<<>>)]))
           [] method \in {Str("resources/read"), Str("prompts/get")} ->
                OneError(i, METHOD_NOT_FOUND, Get(Value(i), "id"))
           [] method = Str("initialized") -> ~Answered(i) /\ Settled(i)
           [] method = Str("tools/call") ->
                /\ \A j \in Replies(i) :
                     Get(Get(out[j].msg, "error"), "code") # Num(METHOD_NOT_FOUND)
                /\ (Settled(i) /\ \E name \in Capabilities : Invokes(i, name)) =>
                     /\ Cardinality(Replies(i)) = 1
                     /\ Get(Get(Reply(i), "result"), "content").t = "array"
           [] OTHER ->
                /\ OneError(i, METHOD_NOT_FOUND, Get(Value(i), "id"))
                /\ Get(Get(Reply(i), "error"), "data") = Fmt("unknown method: ", method)

\* An unknown method was answered with Method not found and an initialize
\* after it with the server descriptor
C15_Witness ==
  /\ Len(calls) = 2 /\ Len(out) = 2
  /\ Versioned(1) /\ HasId(1) /\ Get(Value(1), "method") = Str("foo")
  /\ Get(Get(Reply(1), "error"), "data") = Fmt("unknown method: ", Str("foo"))
  /\ Versioned(2) /\ HasId(2) /\ Get(Value(2), "method") = Str("initialize")
  /\ Get(Get(Reply(2), "result"), "serverInfo") = SERVER_INFO

\* C16, as stated: responses are written in the order their request lines
\* arrived.
C16_ResponsesInArrivalOrder ==
  \A j, k \in 1..Len(out) :
    (j < k /\ out[j].line > 0 /\ out[k].line > 0) => out[j].line <= out[k].line

\* Line i is answered after an await: a "2.0" tools/call that names a tool
Deferred(i) == Versioned(i) /\ ToolsCall(i) /\ Truthy(ToolName(i))

\* C16, amended: a line is routed when it is read, whatever earlier handlers
\* still wait for; the messages for lines other than tools/call lines naming
\* a tool are written while the line is read, hence in arrival order among
\* themselves; only the response of such a tools/call comes later, when its
\* own I/O has completed, and may follow the responses to later lines.
C16_OnlyToolsCallsAnswerLate ==
  /\ \A j, k \in 1..Len(out) :
       (j < k /\ out[j].line > 0 /\ out[k].line > 0
          /\ ~Deferred(out[j].line) /\ ~Deferred(out[k].line)) => out[j].line <= out[k].line
  /\ \A i \in 1..Len(calls) :
       ~Deferred(i) => calls[i].k.pc \in {"done", "rejected"} /\ calls[i].http = <<>>
  /\ \A i \in 1..Len(calls) :
       (Deferred(i) /\ Answered(i)) => Settled(i)

\* A line read after a tools/call was answered while the HTTP request of the
\* tools/call was still pending
C16_Witness ==
  /\ Len(calls) = 2
  /\ Deferred(1) /\ calls[1].k.pc = "io" /\ calls[1].http # <<>> /\ ~Answered(1)
  /\ ~Deferred(2) /\ Answered(2)

\* The closed notification of shutdown()
Closed == [line |-> 0, msg |-> Obj([jsonrpc |-> Str("2.0"),
                                    method |-> Str("notifications/closed"),
                                    params |-> EmptyObj])]

\* C17: the process exits on shutdown() with exactly one closed notification
\* written, as the last message of the output; the exit step leaves every
\* handler where it is (pending I/O is neither cancelled nor waited for), and
\* after the exit nothing is written and no handler moves.
C17_ClosedNotificationIsLast ==
  /\ [](/\ status = "exited" => /\ out # <<>> /\ out[Len(out)] = Closed
                                /\ Cardinality({j \in 1..Len(out) : out[j].line = 0}) = 1
        /\ status # "exited" => \A j \in 1..Len(out) : out[j].line # 0)
  /\ [][(status = "running" /\ status' = "exited")
          => calls' = calls /\ out' = Append(out, Closed)]_vars
  /\ [][status = "exited" => UNCHANGED vars]_vars

\* The process exited while a tools/call waited for its HTTP reply and
\* another line had been answered
C17_Witness ==
  /\ status = "exited" /\ Len(out) = 2 /\ out[2] = Closed
  /\ \E i \in 1..Len(calls) : calls[i].k.pc = "io" /\ calls[i].http # <<>> /\ ~Answered(i)

\* The line is a request of version "2.0" with method initialized
InitializedLine(line) ==
  /\ line.kind = "json"
  /\ Get(line.v, "jsonrpc") = Str("2.0")
  /\ Get(line.v, "method") = Str("initialized")

\* What handling the line writes and where its handler stops do not depend on
\* the readiness flag
Advisory(line) ==
  LET set == handleLine(line, TRUE, DEFAULT_WEBHOOK_KEY)
      unset == handleLine(line, FALSE, DEFAULT_WEBHOOK_KEY)
  IN set.written = unset.written /\ set.k = unset.k

\* C18: the readiness flag starts unset, is set exactly by the handling of a
\* version "2.0" line with method initialized, is never unset again, and no
\* line handled is answered differently for the flag being set or not.
C18_ReadinessFlagIsAdvisory ==
  /\ isInitialized = FALSE
  /\ [][isInitialized => isInitialized']_vars
  /\ [][IF Len(calls') = Len(calls) + 1
          THEN /\ isInitialized' = (isInitialized \/ InitializedLine(calls'[Len(calls')].line))
               /\ Advisory(calls'[Len(calls')].line)
          ELSE isInitialized' = isInitialized]_vars

\* A tools/call was handled and answered with a success envelope before the
\* initialized line that set the flag
C18_Witness ==
  /\ Len(calls) = 2 /\ isInitialized
  /\ Invokes(1, "send_message") /\ SuccessEnvelope(1)
  /\ InitializedLine(calls[2].line)

\* Line i is a tools/call of version "2.0" that names no tool
Nameless(i) == Versioned(i) /\ ToolsCall(i) /\ ~Truthy(ToolName(i))

\* C19: no line has more than one message on the output, and a tools/call
\* that names no tool has exactly one, the Invalid Params error (-32602) under
\* its id, its handler having ended without a file read or an HTTP request.
C19_AtMostOneMessagePerLine ==
  \A i \in 1..Len(calls) :
    /\ Cardinality(Replies(i)) <= 1
    /\ Nameless(i) => /\ OneError(i, INVALID_PARAMS, Get(Value(i), "id"))
                      /\ Settled(i) /\ NoIO(i)

\* A tools/call without a tool name was refused, and a tools/call that went
\* through the dispatcher and an HTTP request has its one response
C19_Witness ==
  /\ Len(calls) = 2
  /\ Nameless(1) /\ OneError(1, INVALID_PARAMS, Get(Value(1), "id"))
  /\ Invokes(2, "send_message") /\ calls[2].http # <<>> /\ Settled(2)
  /\ Cardinality(Replies(2)) = 1

====
